---- MODULE Spec2Model ----
(***************************************************************************)
(* Model of the trip-cleaning pipeline (src/data_cleaning.py) and of the   *)
(* risk engine (src/risk_engine.py), configured by src/config.py.          *)
(*                                                                         *)
(* Numbers.  A Python float is a record [t, v]: t = "fin" with v the value *)
(* in thousandths ("mils"; 1.5 is Fin(1500)), or t = "nan", "pinf",        *)
(* "ninf".  Real arithmetic is exact (rationals); the rounding of a result *)
(* to 2 or 4 decimals is modelled explicitly, the binary representation    *)
(* error of a float below that resolution is not.  A text cell of a CSV    *)
(* file is a record [t, v] too: see the cell constructors below.           *)
(***************************************************************************)
EXTENDS Integers, Sequences, FiniteSets, TLC

(***************************************************************************)
(* Bounds of the model.                                                    *)
(***************************************************************************)
\* longest input file (rows) of the pipeline specification
MaxRows == 3
\* largest CHUNK_SIZE tried
MaxChunk == 2
\* largest MAX_ROWS_TO_PROCESS tried, besides None
MaxCap == 2
\* longest list handed to _compute_manual_variance on its own
MaxLen == 3

(***************************************************************************)
(* src/config.py                                                           *)
(***************************************************************************)
\* floats of the raw file and of the cleaner are counted in thousandths
Mil == 10 * 100

max_distance_miles == 50
min_fare == 0
max_fare == 500
min_trip_duration_minutes == 1
max_trip_duration_minutes == 1440
min_passenger_count == 1
max_passenger_count == 8

VALID_RATE_CODES == {1, 2, 3, 4, 5}
VALID_PAYMENT_TYPES == {1, 2, 3, 4, 5}
VALID_STORE_FWD_FLAGS == {"Y", "N"}
\* the hours from midnight only
LateNightFromMidnight == 0..5
LATE_NIGHT_HOURS == {22, 23, 0, 1, 2, 3, 4, 5}

\* the literal 263 of _load_zone_ids
NYC_ZONE_COUNT == 263

(***************************************************************************)
(* Python values.                                                          *)
(***************************************************************************)
PyNone == [t |-> "none", v |-> 0]
Fin(x) == [t |-> "fin", v |-> x]
NaN == [t |-> "nan", v |-> 0]
PInf == [t |-> "pinf", v |-> 0]
NInf == [t |-> "ninf", v |-> 0]
PyInt(n) == [t |-> "int", v |-> n]
PyDatetime(s) == [t |-> "datetime", v |-> s]
\* an exception raised by the evaluation of an expression
OverflowError == [t |-> "OverflowError", v |-> 0]

IsNone(x) == x.t = "none"
IsFin(x) == x.t = "fin"
Raised(x) == x.t = "OverflowError"

\* a < b and a > b on floats: every comparison with NaN is false
FLt(a, b) ==
    CASE a.t = "nan" \/ b.t = "nan" -> FALSE
      [] a.t = "fin" /\ b.t = "fin" -> a.v < b.v
      [] a.t = "ninf" -> b.t # "ninf"
      [] a.t = "pinf" -> FALSE
      [] OTHER -> b.t = "pinf"
\* a >= b in the place of a > b
FGtOrEqual(a, b) == FLt(b, a) \/ (a.t = "fin" /\ a = b)
FGt(a, b) == FLt(b, a)

\* truth value of a number or None: None, 0 and 0.0 are false, NaN is true
Truthy(x) == ~(IsNone(x) \/ (x.t \in {"fin", "int"} /\ x.v = 0))

\* the integer nearest to n/d (d > 0), an exact tie going to the even one
RoundRat(n, d) ==
    LET q == n \div d
        r == n - q * d
    IN  IF 2 * r < d THEN q
        ELSE IF 2 * r > d THEN q + 1
        ELSE IF q % 2 = 0 THEN q ELSE q + 1

\* round(x, 2) of a float in mils
Round2(x) == IF IsFin(x) THEN Fin(10 * RoundRat(x.v, 10)) ELSE x

(***************************************************************************)
(* Text cells of the raw trip file.  "none" is a cell the row does not     *)
(* have (csv.DictReader fills a short row with None), "empty" the empty    *)
(* text, "junk" a text that is no number and no timestamp, "num" a decimal *)
(* numeral (v in mils), "nan" / "inf" / "ninf" the texts nan, inf, -inf,   *)
(* "ts" a timestamp YYYY-MM-DD HH:MM:SS (v in seconds since 2019-01-01     *)
(* 00:00:00), "tstrail" such a timestamp followed by ",<text>", and        *)
(* "Y", "N", "padN" (" N "), "lowy" ("y") store-and-forward flags.         *)
(***************************************************************************)
Cell(tag, val) == [t |-> tag, v |-> val]
Absent == Cell("none", 0)
Empty == Cell("empty", 0)
Junk == Cell("junk", 0)
Num(m) == Cell("num", m)
Ts(s) == Cell("ts", s)

\* DataCleaner._parse_datetime
_parse_datetime(date_string) ==
    CASE date_string.t \in {"none", "empty"} -> PyNone
      [] date_string.t = "ts" -> PyDatetime(date_string.v)
      [] date_string.t = "tstrail" -> PyDatetime(date_string.v)
      [] OTHER -> PyNone

\* DataCleaner._parse_float
_parse_float(value) ==
    CASE value.t \in {"none", "empty"} -> PyNone
      [] value.t = "num" -> Fin(value.v)
      [] value.t = "nan" -> NaN
      [] value.t = "inf" -> PInf
      [] value.t = "ninf" -> NInf
      [] OTHER -> PyNone

\* int(x) of a finite float in mils: truncation toward zero
Truncate(m) == IF m >= 0 THEN m \div Mil ELSE -((-m) \div Mil)

\* DataCleaner._parse_int: int(float(value)); int(nan) raises ValueError,
\* which is caught, int(inf) raises OverflowError, which is not
_parse_int(value) ==
    CASE value.t \in {"none", "empty"} -> PyNone
      [] value.t = "num" -> PyInt(Truncate(value.v))
      [] value.t = "nan" -> PyNone
      [] value.t \in {"inf", "ninf"} -> OverflowError
      [] OTHER -> PyNone

\* str.strip() of a store-and-forward flag; None has no strip: AttributeError
AttributeError == [t |-> "AttributeError", v |-> 0]
StripRaises(flag) == flag.t = "none"
Strip(flag) ==
    CASE flag.t = "Y" -> "Y"
      [] flag.t = "N" -> "N"
      [] flag.t = "padN" -> "N"
      [] flag.t = "lowy" -> "y"
      [] flag.t = "empty" -> ""
      [] OTHER -> "junk"

\* datetime.year == 2019 and datetime.month == 1
InJanuary2019(dt) == 0 <= dt.v /\ dt.v < 31 * 86400
\* datetime.hour
HourOf(dt) == (dt.v % 86400) \div 3600

\* x or 0.0
OrZero(x) == IF Truthy(x) THEN x ELSE Fin(0)

(***************************************************************************)
(* DataCleaner._validate_record                                            *)
(***************************************************************************)
NoReason == "<None>"
Accepted(cleaned_record) ==
    [is_valid |-> TRUE, cleaned_record |-> cleaned_record, reason |-> NoReason]
Excluded(reason) ==
    [is_valid |-> FALSE, cleaned_record |-> PyNone, reason |-> reason]

\* f"processing_error_{str(e)[:30]}" of the two exceptions the model raises
ProcessingErrorReason(e) ==
    IF e.t = "OverflowError"
    THEN "processing_error_cannot convert float infinity "
    ELSE "processing_error_'NoneType' object has no attri"

\* (dropoff_dt - pickup_dt).total_seconds()
TotalSeconds(pickup_dt, dropoff_dt) == dropoff_dt.v - pickup_dt.v
\* round(seconds / 60, 2), in mils of a minute
DurationMinutes(seconds) == Fin(10 * RoundRat(100 * seconds, 60))

\* lines 178-215: the remaining fields and the cleaned record; loc holds the
\* local variables of _validate_record assigned so far
BuildCleanedRecord(row, row_index, loc) ==
    LET extra == OrZero(_parse_float(row.extra))
        mta_tax == OrZero(_parse_float(row.mta_tax))
        tip_amount == OrZero(_parse_float(row.tip_amount))
        tolls_amount == OrZero(_parse_float(row.tolls_amount))
        improvement_surcharge == OrZero(_parse_float(row.improvement_surcharge))
        congestion_surcharge == OrZero(_parse_float(row.congestion_surcharge))
        vendor_id == _parse_int(row.VendorID)
    IN  IF Raised(vendor_id) THEN Excluded(ProcessingErrorReason(vendor_id))
        ELSE Accepted(
          [trip_id |-> row_index,
           vendor_id |-> vendor_id,
           pickup_datetime |-> Ts(loc.pickup_dt.v),
           dropoff_datetime |-> Ts(loc.dropoff_dt.v),
           passenger_count |-> loc.passenger_count.v,
           trip_distance |-> Round2(loc.trip_distance),
           ratecode_id |-> loc.ratecode_id.v,
           store_and_fwd_flag |-> loc.store_fwd_flag,
           pulocation_id |-> loc.pulocation_id.v,
           dolocation_id |-> loc.dolocation_id.v,
           payment_type |-> loc.payment_type.v,
           fare_amount |-> Round2(loc.fare_amount),
           extra |-> Round2(extra),
           mta_tax |-> Round2(mta_tax),
           tip_amount |-> Round2(tip_amount),
           tolls_amount |-> Round2(tolls_amount),
           improvement_surcharge |-> Round2(improvement_surcharge),
           total_amount |-> IF Truthy(loc.total_amount)
                            THEN Round2(loc.total_amount) ELSE Fin(0),
           congestion_surcharge |-> Round2(congestion_surcharge),
           trip_duration_minutes |->
               DurationMinutes(TotalSeconds(loc.pickup_dt, loc.dropoff_dt)),
           hour_of_day |-> HourOf(loc.pickup_dt)])

\* lines 163-176: rate code, payment type, store-and-forward flag
ValidateCategorical(row, row_index, loc) ==
    LET ratecode_id == _parse_int(row.RatecodeID)
        payment_type == _parse_int(row.payment_type)
        flag == row.store_and_fwd_flag
    IN  IF Raised(ratecode_id) THEN Excluded(ProcessingErrorReason(ratecode_id))
        ELSE IF IsNone(ratecode_id) \/ ratecode_id.v \notin VALID_RATE_CODES
        THEN Excluded("invalid_ratecode")
        ELSE IF Raised(payment_type)
        THEN Excluded(ProcessingErrorReason(payment_type))
        ELSE IF IsNone(payment_type) \/ payment_type.v \notin VALID_PAYMENT_TYPES
        THEN Excluded("invalid_payment_type")
        ELSE IF StripRaises(flag) THEN Excluded(ProcessingErrorReason(AttributeError))
        ELSE IF Strip(flag) \notin VALID_STORE_FWD_FLAGS
        THEN Excluded("invalid_store_fwd_flag")
        ELSE BuildCleanedRecord(row, row_index,
                 [pickup_dt |-> loc.pickup_dt, dropoff_dt |-> loc.dropoff_dt,
                  passenger_count |-> loc.passenger_count,
                  trip_distance |-> loc.trip_distance,
                  pulocation_id |-> loc.pulocation_id,
                  dolocation_id |-> loc.dolocation_id,
                  fare_amount |-> loc.fare_amount,
                  total_amount |-> loc.total_amount,
                  ratecode_id |-> ratecode_id, payment_type |-> payment_type,
                  store_fwd_flag |-> Strip(flag)])

\* lines 119-161: the numeric fields, the zones and the trip duration
ValidateNumeric(row, row_index, zone_ids, pickup_dt, dropoff_dt) ==
    LET trip_distance == _parse_float(row.trip_distance)
        fare_amount == _parse_float(row.fare_amount)
        total_amount == _parse_float(row.total_amount)
        passenger_count == _parse_int(row.passenger_count)
        pulocation_id == _parse_int(row.PULocationID)
        dolocation_id == _parse_int(row.DOLocationID)
        seconds == TotalSeconds(pickup_dt, dropoff_dt)
    IN  IF Raised(passenger_count)
        THEN Excluded(ProcessingErrorReason(passenger_count))
        ELSE IF Raised(pulocation_id)
        THEN Excluded(ProcessingErrorReason(pulocation_id))
        ELSE IF Raised(dolocation_id)
        THEN Excluded(ProcessingErrorReason(dolocation_id))
        ELSE IF IsNone(trip_distance) \/ FLt(trip_distance, Fin(0))
        THEN Excluded("negative_or_null_distance")
        ELSE IF FGt(trip_distance, Fin(max_distance_miles * Mil))
        THEN Excluded("distance_exceeds_max")
        ELSE IF IsNone(fare_amount) \/ FLt(fare_amount, Fin(min_fare * Mil))
        THEN Excluded("negative_or_null_fare")
        ELSE IF FGt(fare_amount, Fin(max_fare * Mil))
        THEN Excluded("fare_exceeds_max")
        ELSE IF IsNone(passenger_count) \/ passenger_count.v < min_passenger_count
        THEN Excluded("invalid_passenger_count")
        ELSE IF passenger_count.v > max_passenger_count
        THEN Excluded("passenger_count_exceeds_max")
        ELSE IF IsNone(pulocation_id) \/ pulocation_id.v \notin zone_ids
        THEN Excluded("invalid_pulocation_id")
        ELSE IF IsNone(dolocation_id) \/ dolocation_id.v \notin zone_ids
        THEN Excluded("invalid_dolocation_id")
        ELSE IF seconds < 60 * min_trip_duration_minutes
        THEN Excluded("trip_duration_too_short")
        ELSE IF seconds > 60 * max_trip_duration_minutes
        THEN Excluded("trip_duration_exceeds_max")
        ELSE ValidateCategorical(row, row_index,
                 [pickup_dt |-> pickup_dt, dropoff_dt |-> dropoff_dt,
                  passenger_count |-> passenger_count,
                  trip_distance |-> trip_distance,
                  pulocation_id |-> pulocation_id,
                  dolocation_id |-> dolocation_id,
                  fare_amount |-> fare_amount, total_amount |-> total_amount])

_validate_record(row, row_index, zone_ids) ==
    LET pickup_dt == _parse_datetime(row.tpep_pickup_datetime)
        dropoff_dt == _parse_datetime(row.tpep_dropoff_datetime)
    IN  IF IsNone(pickup_dt) \/ IsNone(dropoff_dt)
        THEN Excluded("invalid_datetime_format")
        ELSE IF dropoff_dt.v <= pickup_dt.v
        THEN Excluded("dropoff_before_or_equal_pickup")
        ELSE IF ~InJanuary2019(pickup_dt)
        THEN Excluded("date_out_of_range")
        ELSE ValidateNumeric(row, row_index, zone_ids, pickup_dt, dropoff_dt)

(***************************************************************************)
(* Files.  A file is [exists, rows]; the header row is implicit.           *)
(***************************************************************************)
NoFile == [exists |-> FALSE, rows |-> <<>>]
FileOf(rows) == [exists |-> TRUE, rows |-> rows]

\* csv.DictWriter: str() of each value of a cleaned record
FormatInt(n) == Cell("intlit", n)
FormatFloat(x) ==
    CASE x.t = "fin" -> Num(x.v)
      [] x.t = "nan" -> Cell("nan", 0)
      [] x.t = "pinf" -> Cell("inf", 0)
      [] x.t = "ninf" -> Cell("ninf", 0)
      [] OTHER -> Empty
FormatRecord(rec) ==
    [trip_id |-> FormatInt(rec.trip_id),
     vendor_id |-> IF IsNone(rec.vendor_id) THEN Empty
                   ELSE FormatInt(rec.vendor_id.v),
     pickup_datetime |-> rec.pickup_datetime,
     dropoff_datetime |-> rec.dropoff_datetime,
     passenger_count |-> FormatInt(rec.passenger_count),
     trip_distance |-> FormatFloat(rec.trip_distance),
     ratecode_id |-> FormatInt(rec.ratecode_id),
     store_and_fwd_flag |-> Cell(rec.store_and_fwd_flag, 0),
     pulocation_id |-> FormatInt(rec.pulocation_id),
     dolocation_id |-> FormatInt(rec.dolocation_id),
     payment_type |-> FormatInt(rec.payment_type),
     fare_amount |-> FormatFloat(rec.fare_amount),
     extra |-> FormatFloat(rec.extra),
     mta_tax |-> FormatFloat(rec.mta_tax),
     tip_amount |-> FormatFloat(rec.tip_amount),
     tolls_amount |-> FormatFloat(rec.tolls_amount),
     improvement_surcharge |-> FormatFloat(rec.improvement_surcharge),
     total_amount |-> FormatFloat(rec.total_amount),
     congestion_surcharge |-> FormatFloat(rec.congestion_surcharge),
     trip_duration_minutes |-> FormatFloat(rec.trip_duration_minutes),
     hour_of_day |-> FormatInt(rec.hour_of_day)]

(***************************************************************************)
(* Input rows.                                                             *)
(***************************************************************************)
BaseRow ==
    [VendorID |-> Num(1000),
     tpep_pickup_datetime |-> Ts(8 * 3600),
     tpep_dropoff_datetime |-> Ts(8 * 3600 + 600),
     passenger_count |-> Num(1000),
     trip_distance |-> Num(1500),
     RatecodeID |-> Num(1000),
     store_and_fwd_flag |-> Cell("N", 0),
     PULocationID |-> Num(10000),
     DOLocationID |-> Num(20000),
     payment_type |-> Num(1000),
     fare_amount |-> Num(7000),
     extra |-> Num(500),
     mta_tax |-> Num(500),
     tip_amount |-> Num(1650),
     tolls_amount |-> Num(0),
     improvement_surcharge |-> Num(300),
     total_amount |-> Num(1000),
     congestion_surcharge |-> Empty]

\* the rows of the pipeline specification: zone 10 at hour 8 (totals 1.00 and
\* 1.50) and at hour 23 (total 3.50, a trip of exactly one minute), zone 11
\* with a total of nan and with a negative total and extra, and a fare of
\* 600; for the validator alone, a negative distance and fare together with
\* a passenger count of inf
RowA == BaseRow
RowB == [BaseRow EXCEPT !.total_amount = Num(1500)]
RowC ==
    [BaseRow EXCEPT !.tpep_pickup_datetime = Ts(86400 - 30),
                    !.tpep_dropoff_datetime = Ts(86400 + 30),
                    !.total_amount = Num(3500)]
RowD ==
    [BaseRow EXCEPT !.PULocationID = Num(11000),
                    !.total_amount = Cell("nan", 0)]
RowG ==
    [BaseRow EXCEPT !.PULocationID = Num(11000), !.total_amount = Num(-950),
                    !.extra = Num(-500)]
RowE == [BaseRow EXCEPT !.fare_amount = Num(600000)]
RowF ==
    [BaseRow EXCEPT !.trip_distance = Num(-1000), !.fare_amount = Num(-1000),
                    !.passenger_count = Cell("inf", 0)]
PipelineRows == {RowA, RowB, RowC, RowD, RowG, RowE}

\* the values each field takes besides BaseRow's
Variants ==
    [VendorID |-> {Absent, Cell("inf", 0)},
     tpep_pickup_datetime |->
        {Junk, Absent, Cell("tstrail", 8 * 3600), Ts(-3600),
         Ts(86400 - 30), Ts(31 * 86400)},
     tpep_dropoff_datetime |->
        {Empty, Ts(8 * 3600), Ts(8 * 3600 + 59), Ts(8 * 3600 + 60),
         Ts(8 * 3600 + 86400), Ts(8 * 3600 + 86401),
         Ts(86400 + 30)},
     passenger_count |->
        {Num(0), Num(8000), Num(9000), Num(1900), Cell("nan", 0),
         Cell("inf", 0), Empty},
     trip_distance |->
        {Num(0), Num(50000), Num(50010), Num(49996), Num(-1000),
         Cell("nan", 0), Cell("inf", 0), Junk},
     RatecodeID |-> {Num(5000), Num(6000), Cell("inf", 0), Empty},
     store_and_fwd_flag |->
        {Cell("Y", 0), Cell("padN", 0), Cell("lowy", 0), Empty, Absent},
     PULocationID |->
        {Num(11000), Num(263000), Num(264000), Num(0), Cell("inf", 0), Absent},
     DOLocationID |-> {Num(264000), Cell("nan", 0), Cell("inf", 0)},
     payment_type |-> {Num(5000), Num(6000), Cell("inf", 0), Empty},
     fare_amount |->
        {Num(0), Num(500000), Num(500010), Num(600000), Num(-10),
         Cell("nan", 0), Empty},
     extra |-> {Num(-500), Cell("nan", 0), Cell("inf", 0), Junk, Num(0)},
     mta_tax |-> {Num(-500)},
     tip_amount |-> {Cell("nan", 0)},
     tolls_amount |-> {Empty},
     improvement_surcharge |-> {Num(-300)},
     total_amount |->
        {Num(1500), Num(0), Num(-950), Cell("nan", 0), Cell("inf", 0),
         Cell("ninf", 0), Empty},
     congestion_surcharge |-> {Num(2500), Num(-2500)}]

Fields == DOMAIN BaseRow
Perturbations == UNION {{<<f, c>> : c \in Variants[f]} : f \in Fields}
Perturb(row, p) == [row EXCEPT ![p[1]] = p[2]]
\* BaseRow with at most two of its fields changed
ValidatorRows ==
    {Perturb(Perturb(BaseRow, p), q) : p \in Perturbations, q \in Perturbations}
    \cup {BaseRow}

\* BaseRow with at most one of its fields changed
OnceChanged == {Perturb(BaseRow, p) : p \in Perturbations} \cup {BaseRow}

SeqsUpTo(S, n) == UNION {[1..k -> S] : k \in 0..n}

(***************************************************************************)
(* The zone lookup file: [exists, unreadable, ids], ids the distinct       *)
(* LocationID values of its rows, unreadable when one of them is no        *)
(* integer numeral (int() raises ValueError).                              *)
(***************************************************************************)
LookupMissing == [exists |-> FALSE, unreadable |-> FALSE, ids |-> {}]
LookupUnreadable == [exists |-> TRUE, unreadable |-> TRUE, ids |-> 1..265]
LookupShort == [exists |-> TRUE, unreadable |-> FALSE, ids |-> 1..5]
LookupLong == [exists |-> TRUE, unreadable |-> FALSE, ids |-> 1..265]
\* one id short of the zone count, and exactly the zone count of ids that
\* are not 1..263
LookupAlmost == [exists |-> TRUE, unreadable |-> FALSE, ids |-> 1..(NYC_ZONE_COUNT - 1)]
LookupExact == [exists |-> TRUE, unreadable |-> FALSE, ids |-> 3..(NYC_ZONE_COUNT + 2)]
ZoneLookups ==
    {LookupMissing, LookupUnreadable, LookupShort, LookupLong, LookupAlmost, LookupExact}

\* _load_zone_ids taking the ids of any readable lookup as they are
LoadListedZoneIds(lookup) ==
    IF ~lookup.exists \/ lookup.unreadable THEN 1..NYC_ZONE_COUNT
    ELSE lookup.ids

\* DataCleaner._load_zone_ids
_load_zone_ids(lookup) ==
    IF ~lookup.exists \/ lookup.unreadable THEN 1..NYC_ZONE_COUNT
    ELSE IF Cardinality(lookup.ids) < NYC_ZONE_COUNT THEN 1..NYC_ZONE_COUNT
    ELSE lookup.ids

(***************************************************************************)
(* State.                                                                  *)
(***************************************************************************)
VARIABLES
    source,               \* YELLOW_TRIPDATA_CSV
    zone_lookup,          \* TAXI_ZONE_LOOKUP_CSV
    CHUNK_SIZE,           \* config.CHUNK_SIZE
    MAX_ROWS_TO_PROCESS,  \* config.MAX_ROWS_TO_PROCESS, None or an int
    cleaned_file,         \* CLEANED_TRIPS_CSV
    exclusion_log,        \* EXCLUDED_RECORDS_LOG
    pc,                   \* where the two runs are
    zone_ids,             \* DataCleaner.zone_ids
    cleaned_trips,        \* DataCleaner.cleaned_trips
    excluded_records,     \* DataCleaner.excluded_records
    stats,                \* DataCleaner.stats
    row_index,            \* the last index enumerate() gave
    chunk,                \* len(chunk)
    chunk_count,          \* chunk_count
    engine_trips,         \* RiskEngine.cleaned_trips
    zone_hour_metrics,    \* RiskEngine.zone_hour_metrics
    zone_revenue_metrics, \* RiskEngine.zone_revenue_metrics
    zone_risk_scores,     \* RiskEngine.zone_risk_scores
    values,               \* the argument of _compute_manual_variance
    variance_out          \* and its result

config == <<source, zone_lookup, CHUNK_SIZE, MAX_ROWS_TO_PROCESS>>
files == <<cleaned_file, exclusion_log>>
cleaner == <<zone_ids, cleaned_trips, excluded_records, stats, row_index, chunk, chunk_count>>
engine == <<engine_trips, zone_hour_metrics, zone_revenue_metrics, zone_risk_scores>>
variance_vars == <<values, variance_out>>
vars == <<config, files, pc, cleaner, engine, variance_vars>>

EmptyDict == [k \in {} |-> 0]

\* the files an earlier run of the same pipeline left: one trip of zone 12
\* and one exclusion
EarlierTrip ==
    _validate_record([BaseRow EXCEPT !.PULocationID = Num(12000),
                                     !.total_amount = Num(2000)],
                     1, 1..NYC_ZONE_COUNT).cleaned_record
EarlierCleanedFile == FileOf(<<FormatRecord(EarlierTrip)>>)
EarlierExclusionLog == FileOf(<<[index |-> 2, reason |-> "fare_exceeds_max"]>>)

\* the settings of MAX_ROWS_TO_PROCESS: None and the caps 0..MaxCap
Caps == {PyNone} \cup {PyInt(n) : n \in 0..MaxCap}

\* DataCleaner.__init__ and RiskEngine.__init__, over the given inputs
InitOver(sources, lookups, chunk_sizes, caps, earlier) ==
    /\ source \in sources
    /\ zone_lookup \in lookups
    /\ CHUNK_SIZE \in chunk_sizes
    /\ MAX_ROWS_TO_PROCESS \in caps
    /\ \E e \in earlier :
          /\ cleaned_file = IF e THEN EarlierCleanedFile ELSE NoFile
          /\ exclusion_log = IF e THEN EarlierExclusionLog ELSE NoFile
    /\ zone_ids = _load_zone_ids(zone_lookup)
    /\ cleaned_trips = <<>>
    /\ excluded_records = <<>>
    /\ stats = [total_processed |-> 0, total_valid |-> 0, total_excluded |-> 0,
                excluded_by_reason |-> EmptyDict]
    /\ row_index = 0
    /\ chunk = 0
    /\ chunk_count = 0
    /\ engine_trips = <<>>
    /\ zone_hour_metrics = <<>>
    /\ zone_revenue_metrics = <<>>
    /\ zone_risk_scores = <<>>

\* the start of a pipeline run; _compute_manual_variance is not called alone
InitRun ==
    /\ pc = "process_csv_chunks"
    /\ values = <<>>
    /\ variance_out = <<>>

\* every input of up to MaxRows rows, under every chunk size and cap with
\* no files of an earlier run, and with such files under the defaults
Sources == {FileOf(r) : r \in SeqsUpTo(PipelineRows, MaxRows)} \cup {NoFile}
Init ==
    /\ \/ InitOver(Sources, {LookupMissing}, 1..MaxChunk, Caps, {FALSE})
       \/ InitOver(Sources, {LookupMissing}, {1}, {PyNone}, {TRUE})
    /\ InitRun

(***************************************************************************)
(* DataCleaner.process_csv_chunks, one iteration of its loop per step.     *)
(***************************************************************************)
\* lines 272-273: the trip file does not exist
TripDataNotFound ==
    /\ pc = "process_csv_chunks"
    /\ ~source.exists
    /\ pc' = "write_cleaned_data"
    /\ UNCHANGED <<config, files, cleaner, engine, variance_vars>>

\* lines 229-233
OpenTripData ==
    /\ pc = "process_csv_chunks"
    /\ source.exists
    /\ pc' = "loop"
    /\ UNCHANGED <<config, files, cleaner, engine, variance_vars>>

\* excluded_by_reason[reason] = 1, whatever was counted before
CountReasonOnce(by_reason, reason) ==
    IF reason \in DOMAIN by_reason
    THEN [by_reason EXCEPT ![reason] = 1]
    ELSE by_reason @@ (reason :> 1)

\* excluded_by_reason[reason] = excluded_by_reason.get(reason, 0) + 1
CountReason(by_reason, reason) ==
    IF reason \in DOMAIN by_reason
    THEN [by_reason EXCEPT ![reason] = @ + 1]
    ELSE by_reason @@ (reason :> 1)

\* Record with the exclusion counted but not listed
RecordUnlisted(result, index) ==
    /\ cleaned_trips' = IF result.is_valid
                        THEN Append(cleaned_trips, result.cleaned_record)
                        ELSE cleaned_trips
    /\ excluded_records' = excluded_records
    /\ stats' = IF result.is_valid
                THEN [stats EXCEPT !.total_processed = @ + 1,
                                   !.total_valid = @ + 1]
                ELSE [stats EXCEPT !.total_processed = @ + 1,
                                   !.total_excluded = @ + 1,
                                   !.excluded_by_reason =
                                       CountReason(@, result.reason)]

\* Record with each list kept newest first
RecordNewestFirst(result, index) ==
    /\ cleaned_trips' = IF result.is_valid
                        THEN <<result.cleaned_record>> \o cleaned_trips
                        ELSE cleaned_trips
    /\ excluded_records' = IF result.is_valid THEN excluded_records
                           ELSE <<<<index, result.reason>>>> \o excluded_records
    /\ stats' = IF result.is_valid
                THEN [stats EXCEPT !.total_processed = @ + 1,
                                   !.total_valid = @ + 1]
                ELSE [stats EXCEPT !.total_processed = @ + 1,
                                   !.total_excluded = @ + 1,
                                   !.excluded_by_reason =
                                       CountReason(@, result.reason)]

\* lines 245-253: the lists and counters after one validated record
Record(result, index) ==
    /\ cleaned_trips' = IF result.is_valid
                        THEN Append(cleaned_trips, result.cleaned_record)
                        ELSE cleaned_trips
    /\ excluded_records' = IF result.is_valid THEN excluded_records
                           ELSE Append(excluded_records, <<index, result.reason>>)
    /\ stats' = IF result.is_valid
                THEN [stats EXCEPT !.total_processed = @ + 1,
                                   !.total_valid = @ + 1]
                ELSE [stats EXCEPT !.total_processed = @ + 1,
                                   !.total_excluded = @ + 1,
                                   !.excluded_by_reason =
                                       CountReason(@, result.reason)]

\* lines 256-260: the chunk buffer
BufferChunk ==
    IF chunk + 1 >= CHUNK_SIZE
    THEN chunk' = 0 /\ chunk_count' = chunk_count + 1
    ELSE chunk' = chunk + 1 /\ chunk_count' = chunk_count

\* line 237: MAX_ROWS_TO_PROCESS and row_index > MAX_ROWS_TO_PROCESS
BeyondCap(index) ==
    Truthy(MAX_ROWS_TO_PROCESS) /\ index > MAX_ROWS_TO_PROCESS.v

\* ProcessRow with the lists restarted whenever a chunk has been flushed
ProcessRowPerChunk ==
    /\ pc = "loop"
    /\ row_index < Len(source.rows)
    /\ ~BeyondCap(row_index + 1)
    /\ row_index' = row_index + 1
    /\ LET result == _validate_record(source.rows[row_index + 1], row_index + 1, zone_ids)
           flushed == chunk = 0 /\ chunk_count > 0
           kept_trips == IF flushed THEN <<>> ELSE cleaned_trips
           kept_records == IF flushed THEN <<>> ELSE excluded_records
       IN  /\ cleaned_trips' = IF result.is_valid
                               THEN Append(kept_trips, result.cleaned_record)
                               ELSE kept_trips
           /\ excluded_records' =
                  IF result.is_valid THEN kept_records
                  ELSE Append(kept_records, <<row_index + 1, result.reason>>)
           /\ stats' = IF result.is_valid
                       THEN [stats EXCEPT !.total_processed = @ + 1,
                                          !.total_valid = @ + 1]
                       ELSE [stats EXCEPT !.total_processed = @ + 1,
                                          !.total_excluded = @ + 1,
                                          !.excluded_by_reason =
                                              CountReason(@, result.reason)]
    /\ BufferChunk
    /\ UNCHANGED <<config, files, pc, zone_ids, engine, variance_vars>>

\* ProcessRow with a fault of the validation left to the handler of lines
\* 274-275, which ends the loop
ProcessRowAborting ==
    /\ pc = "loop"
    /\ row_index < Len(source.rows)
    /\ ~BeyondCap(row_index + 1)
    /\ row_index' = row_index + 1
    /\ LET result == _validate_record(source.rows[row_index + 1], row_index + 1, zone_ids)
           fault == ~result.is_valid
                    /\ result.reason \in {ProcessingErrorReason(OverflowError),
                                          ProcessingErrorReason(AttributeError)}
       IN  IF fault
           THEN /\ stats' = [stats EXCEPT !.total_processed = @ + 1]
                /\ pc' = "write_cleaned_data"
                /\ UNCHANGED <<cleaned_trips, excluded_records, chunk, chunk_count>>
           ELSE /\ Record(result, row_index + 1)
                /\ BufferChunk
                /\ pc' = pc
    /\ UNCHANGED <<config, files, zone_ids, engine, variance_vars>>

\* lines 235-260: one row within the cap
ProcessRow ==
    /\ pc = "loop"
    /\ row_index < Len(source.rows)
    /\ ~BeyondCap(row_index + 1)
    /\ row_index' = row_index + 1
    /\ Record(_validate_record(source.rows[row_index + 1], row_index + 1, zone_ids),
              row_index + 1)
    /\ BufferChunk
    /\ UNCHANGED <<config, files, pc, zone_ids, engine, variance_vars>>

\* lines 262-265: the rows left in the buffer
RemainingChunk ==
    /\ chunk_count' = IF chunk > 0 THEN chunk_count + 1 ELSE chunk_count
    /\ UNCHANGED chunk

\* lines 237-238: the first row beyond the cap ends the loop
CapReached ==
    /\ pc = "loop"
    /\ row_index < Len(source.rows)
    /\ BeyondCap(row_index + 1)
    /\ row_index' = row_index + 1
    /\ RemainingChunk
    /\ pc' = "write_cleaned_data"
    /\ UNCHANGED <<config, files, zone_ids, cleaned_trips, excluded_records, stats, engine, variance_vars>>

\* the reader is exhausted
EndOfInput ==
    /\ pc = "loop"
    /\ row_index = Len(source.rows)
    /\ RemainingChunk
    /\ pc' = "write_cleaned_data"
    /\ UNCHANGED <<config, files, zone_ids, cleaned_trips, excluded_records, stats, row_index, engine, variance_vars>>

(***************************************************************************)
(* DataCleaner.write_cleaned_data, write_exclusion_log                     *)
(***************************************************************************)
FormatAll(trips) == [i \in 1..Len(trips) |-> FormatRecord(trips[i])]

write_cleaned_data ==
    /\ pc = "write_cleaned_data"
    /\ cleaned_file' = IF cleaned_trips = <<>> THEN cleaned_file
                       ELSE FileOf(FormatAll(cleaned_trips))
    /\ pc' = "write_exclusion_log"
    /\ UNCHANGED <<config, exclusion_log, cleaner, engine, variance_vars>>

write_exclusion_log ==
    /\ pc = "write_exclusion_log"
    /\ exclusion_log' =
          FileOf([i \in 1..Len(excluded_records) |->
                     [index |-> excluded_records[i][1],
                      reason |-> excluded_records[i][2]]])
    /\ pc' = "RiskEngine.run"
    /\ UNCHANGED <<config, cleaned_file, cleaner, engine, variance_vars>>

(***************************************************************************)
(* Floats of the risk engine: exact extended rationals [t, n, d], t =      *)
(* "fin" for n/d (d > 0, lowest terms), "nan", "pinf", "ninf", and "root"  *)
(* for the real square root of n/d.                                        *)
(***************************************************************************)
RECURSIVE GCD(_, _)
GCD(a, b) == IF b = 0 THEN a ELSE GCD(b, a % b)
Abs(x) == IF x < 0 THEN -x ELSE x

Q(n, d) ==
    LET g == GCD(Abs(n), d)
    IN  [t |-> "fin", n |-> n \div g, d |-> d \div g]
XNaN == [t |-> "nan", n |-> 0, d |-> 1]
XPInf == [t |-> "pinf", n |-> 0, d |-> 1]
XNInf == [t |-> "ninf", n |-> 0, d |-> 1]
Root(n, d) == [t |-> "root", n |-> n, d |-> d]

XNeg(a) ==
    CASE a.t = "fin" -> Q(-a.n, a.d)
      [] a.t = "pinf" -> XNInf
      [] a.t = "ninf" -> XPInf
      [] OTHER -> XNaN

\* a + b
XAdd(a, b) ==
    CASE a.t = "nan" \/ b.t = "nan" -> XNaN
      [] a.t = "fin" /\ b.t = "fin" ->
            LET l == (a.d \div GCD(a.d, b.d)) * b.d
            IN  Q(a.n * (l \div a.d) + b.n * (l \div b.d), l)
      [] a.t = "fin" -> b
      [] b.t = "fin" -> a
      [] a.t = b.t -> a
      [] OTHER -> XNaN
XSub(a, b) == XAdd(a, XNeg(b))

Sign(a) ==
    CASE a.t = "pinf" -> 1
      [] a.t = "ninf" -> -1
      [] OTHER -> IF a.n > 0 THEN 1 ELSE IF a.n < 0 THEN -1 ELSE 0

\* a * b
XMul(a, b) ==
    CASE a.t = "nan" \/ b.t = "nan" -> XNaN
      [] a.t = "fin" /\ b.t = "fin" -> Q(a.n * b.n, a.d * b.d)
      [] Sign(a) * Sign(b) > 0 -> XPInf
      [] Sign(a) * Sign(b) < 0 -> XNInf
      [] OTHER -> XNaN

\* a / b for b # 0
XDiv(a, b) ==
    CASE a.t = "nan" \/ b.t = "nan" -> XNaN
      [] a.t = "fin" /\ b.t = "fin" ->
            IF b.n > 0 THEN Q(a.n * b.d, a.d * b.n) ELSE Q(-(a.n * b.d), a.d * (-b.n))
      [] a.t = "fin" -> Q(0, 1)
      [] b.t = "fin" -> IF Sign(a) * Sign(b) > 0 THEN XPInf ELSE XNInf
      [] OTHER -> XNaN

\* a < b, a > b, a == b: false whenever NaN is compared
XLt(a, b) ==
    CASE a.t = "nan" \/ b.t = "nan" -> FALSE
      [] a.t = "fin" /\ b.t = "fin" -> a.n * b.d < b.n * a.d
      [] a.t = "ninf" -> b.t # "ninf"
      [] a.t = "pinf" -> FALSE
      [] OTHER -> b.t = "pinf"
XGt(a, b) == XLt(b, a)
XEq(a, b) == a.t # "nan" /\ a = b

\* math.sqrt of a value that is not negative
XSqrt(a) ==
    CASE a.t = "fin" -> IF a.n = 0 THEN Q(0, 1) ELSE Root(a.n, a.d)
      [] a.t = "pinf" -> XPInf
      [] OTHER -> XNaN

\* floor(n * f1 * f2 * ... / d) for n >= 0, d > 0, the factors given as a
\* sequence, without forming the product
RECURSIVE MulFloor(_, _, _, _)
MulFloor(int, rem, d, factors) ==
    IF factors = <<>> THEN int
    ELSE MulFloor(int * Head(factors) + (rem * Head(factors)) \div d,
                  (rem * Head(factors)) % d, d, Tail(factors))

\* floor(sqrt(x)) for 0 <= x < 2^31
RECURSIVE ISqrtIn(_, _, _)
ISqrtIn(x, lo, hi) ==
    IF lo = hi THEN lo
    ELSE LET mid == (lo + hi + 1) \div 2
         IN  IF mid * mid <= x THEN ISqrtIn(x, mid, hi) ELSE ISqrtIn(x, lo, mid - 1)
ISqrt(x) == ISqrtIn(x, 0, 46340)

\* the integer nearest to 10^k * sqrt(n/d), scale = <<10, ..., 10>> (2k tens)
RoundRoot(n, d, scale) ==
    (ISqrt(MulFloor(n \div d, n % d, d, <<4>> \o scale)) + 1) \div 2

Tens(k) == [i \in 1..k |-> 10]

\* round(x, 2) and round(x, 4) of an engine float
XRound2(x) ==
    CASE x.t = "fin" -> Q(RoundRat(100 * x.n, x.d), 100)
      [] x.t = "root" -> Q(RoundRoot(x.n, x.d, Tens(4)), 100)
      [] OTHER -> x
XRound4(x) ==
    CASE x.t = "fin" -> Q(RoundRat(10000 * x.n, x.d), 10000)
      [] x.t = "root" -> Q(RoundRoot(x.n, x.d, Tens(8)), 10000)
      [] OTHER -> x

\* float(text) and int(text) of a cell of the cleaned file
EngineFloat(cell) ==
    CASE cell.t = "num" -> Q(cell.v, Mil)
      [] cell.t = "intlit" -> Q(cell.v, 1)
      [] cell.t = "inf" -> XPInf
      [] cell.t = "ninf" -> XNInf
      [] OTHER -> XNaN
EngineInt(cell) == cell.v

\* sum(values), from 0
RECURSIVE XSum(_)
XSum(xs) == IF xs = <<>> THEN Q(0, 1) ELSE XAdd(XSum(SubSeq(xs, 1, Len(xs) - 1)), xs[Len(xs)])

\* the loop of lines 63-66
RECURSIVE SumSquaredDiff(_, _)
SumSquaredDiff(xs, mean) ==
    IF xs = <<>> THEN Q(0, 1)
    ELSE XAdd(SumSquaredDiff(SubSeq(xs, 1, Len(xs) - 1), mean),
              XMul(XSub(xs[Len(xs)], mean), XSub(xs[Len(xs)], mean)))

DivideBy(x, n) == XDiv(x, Q(n, 1))

\* the sample variance: the sum divided by n - 1
SampleVariance(xs) ==
    IF xs = <<>> THEN <<Q(0, 1), Q(0, 1)>>
    ELSE LET mean == XDiv(XSum(xs), Q(Len(xs), 1))
             sum_squared_diff == SumSquaredDiff(xs, mean)
             variance == DivideBy(sum_squared_diff,
                                  IF Len(xs) > 1 THEN Len(xs) - 1 ELSE 1)
         IN  <<variance, XSqrt(variance)>>

\* RiskEngine._compute_manual_variance: <<variance, std_dev>>
_compute_manual_variance(xs) ==
    IF xs = <<>> THEN <<Q(0, 1), Q(0, 1)>>
    ELSE LET mean == XDiv(XSum(xs), Q(Len(xs), 1))
             sum_squared_diff == SumSquaredDiff(xs, mean)
             variance == DivideBy(sum_squared_diff, Len(xs))
         IN  <<variance, XSqrt(variance)>>

(***************************************************************************)
(* The risk engine.  A dict is the sequence of its entries in insertion    *)
(* order, each entry holding its key.                                      *)
(***************************************************************************)
Front(xs) == SubSeq(xs, 1, Len(xs) - 1)
Last(xs) == xs[Len(xs)]

\* RiskEngine.load_cleaned_data, and run's test of what it loaded
load_cleaned_data ==
    /\ pc = "RiskEngine.run"
    /\ engine_trips' = IF cleaned_file.exists THEN cleaned_file.rows ELSE <<>>
    /\ pc' = IF engine_trips' = <<>> THEN "done" ELSE "compute_exposure_density"
    /\ UNCHANGED <<config, files, cleaner, zone_hour_metrics, zone_revenue_metrics, zone_risk_scores, variance_vars>>

\* the position of the entry of a zone (and hour), 0 when there is none
ZoneHourIndex(entries, zone_id, hour) ==
    LET found == {i \in 1..Len(entries) :
                     entries[i].zone_id = zone_id /\ entries[i].hour = hour}
    IN  IF found = {} THEN 0 ELSE CHOOSE i \in found : TRUE
ZoneIndex(entries, zone_id) ==
    LET found == {i \in 1..Len(entries) : entries[i].zone_id = zone_id}
    IN  IF found = {} THEN 0 ELSE CHOOSE i \in found : TRUE

\* zone_hour_trips keyed by the zone alone
RECURSIVE ZoneHourTripsByZone(_)
ZoneHourTripsByZone(trips) ==
    IF trips = <<>> THEN <<>>
    ELSE LET acc == ZoneHourTripsByZone(Front(trips))
             trip == Last(trips)
             zone_id == EngineInt(trip.pulocation_id)
             hour == EngineInt(trip.hour_of_day)
             duration == EngineFloat(trip.trip_duration_minutes)
             at == ZoneIndex(acc, zone_id)
         IN  IF at = 0
             THEN Append(acc, [zone_id |-> zone_id, hour |-> hour, count |-> 1,
                               total_duration |-> XAdd(Q(0, 1), duration)])
             ELSE [acc EXCEPT ![at].count = @ + 1,
                              ![at].total_duration = XAdd(@, duration)]

\* lines 86-107: zone_hour_trips
RECURSIVE ZoneHourTrips(_)
ZoneHourTrips(trips) ==
    IF trips = <<>> THEN <<>>
    ELSE LET acc == ZoneHourTrips(Front(trips))
             trip == Last(trips)
             zone_id == EngineInt(trip.pulocation_id)
             hour == EngineInt(trip.hour_of_day)
             duration == EngineFloat(trip.trip_duration_minutes)
             at == ZoneHourIndex(acc, zone_id, hour)
         IN  IF at = 0
             THEN Append(acc, [zone_id |-> zone_id, hour |-> hour, count |-> 1,
                               total_duration |-> XAdd(Q(0, 1), duration)])
             ELSE [acc EXCEPT ![at].count = @ + 1,
                              ![at].total_duration = XAdd(@, duration)]

\* lines 110-120: the metrics of one zone-hour
ZoneHourMetric(data) ==
    [zone_id |-> data.zone_id,
     hour |-> data.hour,
     trip_count |-> data.count,
     avg_trip_duration |->
        XRound2(IF data.count > 0 THEN DivideBy(data.total_duration, data.count)
                ELSE Q(0, 1)),
     exposure_score |-> data.count]

\* RiskEngine.compute_exposure_density (zone_hour_metrics is empty before)
compute_exposure_density ==
    /\ pc = "compute_exposure_density"
    /\ zone_hour_metrics' =
          LET zone_hour_trips == ZoneHourTrips(engine_trips)
          IN  [i \in 1..Len(zone_hour_trips) |-> ZoneHourMetric(zone_hour_trips[i])]
    /\ pc' = "compute_revenue_volatility"
    /\ UNCHANGED <<config, files, cleaner, engine_trips, zone_revenue_metrics, zone_risk_scores, variance_vars>>

\* lines 135-144: zone_fares
RECURSIVE ZoneFares(_)
ZoneFares(trips) ==
    IF trips = <<>> THEN <<>>
    ELSE LET acc == ZoneFares(Front(trips))
             trip == Last(trips)
             zone_id == EngineInt(trip.pulocation_id)
             total_amount == EngineFloat(trip.total_amount)
             at == ZoneIndex(acc, zone_id)
         IN  IF at = 0
             THEN Append(acc, [zone_id |-> zone_id, fares |-> <<total_amount>>])
             ELSE [acc EXCEPT ![at].fares = Append(@, total_amount)]

\* a if a is first among the largest (smallest), as max(a, b) and min(a, b)
PyMax2(a, b) == IF XGt(b, a) THEN b ELSE a
PyMin2(a, b) == IF XLt(b, a) THEN b ELSE a

\* lines 160-161 and 168: round(max(0, 1 - std_dev / max_possible_std), 4)
StabilityScore(mean_fare, std_dev) ==
    LET max_possible_std == IF XGt(mean_fare, Q(0, 1)) THEN XMul(mean_fare, Q(2, 1))
                            ELSE Q(1, 1)
    IN  IF std_dev.t = "root"
        THEN IF max_possible_std.t = "pinf" THEN Q(1, 1)
             ELSE LET ratio2 == XDiv(Q(std_dev.n, std_dev.d),
                                     XMul(max_possible_std, max_possible_std))
                  IN  IF ratio2.n >= ratio2.d THEN Q(0, 1)
                      ELSE Q(10000 - RoundRoot(ratio2.n, ratio2.d, Tens(8)), 10000)
        ELSE XRound4(PyMax2(Q(0, 1), XSub(Q(1, 1), XDiv(std_dev, max_possible_std))))

\* lines 152-169: the metrics of one zone
ZoneRevenueMetric(zone_id, fares) ==
    LET mean_fare == DivideBy(XSum(fares), Len(fares))
        vs == _compute_manual_variance(fares)
    IN  [zone_id |-> zone_id,
         avg_revenue |-> XRound2(mean_fare),
         revenue_variance |-> XRound2(vs[1]),
         revenue_std_dev |-> XRound2(vs[2]),
         stability_score |-> StabilityScore(mean_fare, vs[2])]

\* RiskEngine.compute_revenue_volatility (zone_revenue_metrics is empty before)
compute_revenue_volatility ==
    /\ pc = "compute_revenue_volatility"
    /\ zone_revenue_metrics' =
          LET zone_fares == ZoneFares(engine_trips)
          IN  [i \in 1..Len(zone_fares) |->
                  ZoneRevenueMetric(zone_fares[i].zone_id, zone_fares[i].fares)]
    /\ pc' = "compute_risk_scores"
    /\ UNCHANGED <<config, files, cleaner, engine_trips, zone_hour_metrics, zone_risk_scores, variance_vars>>

\* max(iterable, default=...): the first of the largest, NaN never larger
RECURSIVE PyMax(_, _)
PyMax(xs, default) ==
    IF xs = <<>> THEN default
    ELSE IF Len(xs) = 1 THEN xs[1]
    ELSE PyMax2(PyMax(Front(xs), default), Last(xs))

\* lines 187-190
MaxTripCount(metrics) ==
    PyMax([i \in 1..Len(metrics) |-> Q(metrics[i].trip_count, 1)], Q(1, 1))

\* the largest standard deviation, floored at 1
MaxVolatilityFloored(metrics) ==
    PyMax2(Q(1, 1),
           PyMax([i \in 1..Len(metrics) |-> metrics[i].revenue_std_dev], Q(1, 1)))

\* lines 192-199
MaxVolatility(metrics) ==
    LET max_volatility ==
            PyMax([i \in 1..Len(metrics) |-> metrics[i].revenue_std_dev], Q(1, 1))
    IN  IF XEq(max_volatility, Q(0, 1)) THEN Q(1, 1) ELSE max_volatility

\* lines 210-214
VolatilityNormalized(zone_id, metrics, max_volatility) ==
    LET at == ZoneIndex(metrics, zone_id)
    IN  IF at = 0 THEN Q(0, 1)
        ELSE IF XGt(max_volatility, Q(0, 1))
             THEN XDiv(metrics[at].revenue_std_dev, max_volatility)
             ELSE Q(0, 1)

\* config.RISK_WEIGHTS: 0.4, 0.3, 0.3
RISK_WEIGHTS ==
    [density |-> Q(4, 10), late_night |-> Q(3, 10), volatility |-> Q(3, 10)]

\* lines 202-234: the score of one zone-hour
RiskScore(metrics, max_trip_count, max_volatility) ==
    LET trip_count == metrics.trip_count
        density_normalized ==
            IF XGt(max_trip_count, Q(0, 1)) THEN XDiv(Q(trip_count, 1), max_trip_count)
            ELSE Q(0, 1)
        late_night_factor == IF metrics.hour \in LATE_NIGHT_HOURS THEN Q(1, 1) ELSE Q(0, 1)
        volatility_normalized ==
            VolatilityNormalized(metrics.zone_id, zone_revenue_metrics, max_volatility)
        risk_score ==
            XAdd(XAdd(XMul(RISK_WEIGHTS.density, density_normalized),
                      XMul(RISK_WEIGHTS.late_night, late_night_factor)),
                 XMul(RISK_WEIGHTS.volatility, volatility_normalized))
    IN  [zone_id |-> metrics.zone_id,
         hour |-> metrics.hour,
         trip_count |-> trip_count,
         density_component |-> XRound4(XMul(RISK_WEIGHTS.density, density_normalized)),
         late_night_component |->
            XRound4(XMul(RISK_WEIGHTS.late_night, late_night_factor)),
         volatility_component |->
            XRound4(XMul(RISK_WEIGHTS.volatility, volatility_normalized)),
         risk_score |-> XRound4(PyMax2(Q(0, 1), PyMin2(Q(1, 1), risk_score)))]

\* RiskEngine.compute_risk_scores (zone_risk_scores is empty before)
compute_risk_scores ==
    /\ pc = "compute_risk_scores"
    /\ zone_risk_scores' =
          [i \in 1..Len(zone_hour_metrics) |->
              RiskScore(zone_hour_metrics[i], MaxTripCount(zone_hour_metrics),
                        MaxVolatility(zone_revenue_metrics))]
    /\ pc' = "done"
    /\ UNCHANGED <<config, files, cleaner, engine_trips, zone_hour_metrics, zone_revenue_metrics, variance_vars>>

(***************************************************************************)
(* The pipeline: DataCleaner.run, then RiskEngine.run.                     *)
(***************************************************************************)
Next ==
    \/ TripDataNotFound
    \/ OpenTripData
    \/ ProcessRow
    \/ CapReached
    \/ EndOfInput
    \/ write_cleaned_data
    \/ write_exclusion_log
    \/ load_cleaned_data
    \/ compute_exposure_density
    \/ compute_revenue_volatility
    \/ compute_risk_scores

Spec == Init /\ [][Next]_vars

\* one row at a time, each BaseRow with at most two fields changed, under
\* every zone lookup; two rows, each with at most one field changed; and
\* the inputs that make the other steps happen
InitValidate ==
    /\ \/ InitOver({FileOf(<<r>>) : r \in ValidatorRows \cup PipelineRows \cup {RowF}},
                    ZoneLookups, {1}, {PyNone}, {FALSE})
       \/ InitOver({FileOf(<<r1, r2>>) : r1 \in OnceChanged, r2 \in OnceChanged},
                    {LookupMissing}, {1}, {PyNone}, {FALSE})
       \/ InitOver({NoFile, FileOf(<<BaseRow, BaseRow>>)}, {LookupMissing}, {1},
                    {PyInt(1)}, {FALSE})
    /\ InitRun

SpecValidate == InitValidate /\ [][Next]_vars

(***************************************************************************)
(* _compute_manual_variance on its own.                                    *)
(***************************************************************************)
VarianceValues ==
    {Q(0, 1), Q(10, 1), Q(20, 1), Q(3, 2), Q(-19, 20), XNaN, XPInf}

\* risk_engine.py run on its own (lines 324-326), over a cleaned file of one
\* or two trips of zone 10, each at any hour of the day
HourlyTrip(hour, trip_id) ==
    FormatRecord(
        _validate_record([BaseRow EXCEPT !.tpep_pickup_datetime = Ts(hour * 3600),
                                         !.tpep_dropoff_datetime = Ts(hour * 3600 + 600)],
                         trip_id, 1..NYC_ZONE_COUNT).cleaned_record)
HourlyFiles ==
    {FileOf(<<HourlyTrip(h, 1)>>) : h \in 0..23}
        \cup {FileOf(<<HourlyTrip(h1, 1), HourlyTrip(h2, 2)>>) : h1 \in 0..23, h2 \in 0..23}

InitEngine ==
    /\ source = NoFile
    /\ zone_lookup = LookupMissing
    /\ CHUNK_SIZE = 1
    /\ MAX_ROWS_TO_PROCESS = PyNone
    /\ cleaned_file \in HourlyFiles
    /\ exclusion_log = NoFile
    /\ zone_ids = _load_zone_ids(zone_lookup)
    /\ cleaned_trips = <<>>
    /\ excluded_records = <<>>
    /\ stats = [total_processed |-> 0, total_valid |-> 0, total_excluded |-> 0,
                excluded_by_reason |-> EmptyDict]
    /\ row_index = 0
    /\ chunk = 0
    /\ chunk_count = 0
    /\ engine_trips = <<>>
    /\ zone_hour_metrics = <<>>
    /\ zone_revenue_metrics = <<>>
    /\ zone_risk_scores = <<>>
    /\ pc = "RiskEngine.run"
    /\ values = <<>>
    /\ variance_out = <<>>

NextEngine ==
    \/ load_cleaned_data
    \/ compute_exposure_density
    \/ compute_revenue_volatility
    \/ compute_risk_scores

SpecEngine == InitEngine /\ [][NextEngine]_vars

InitVariance ==
    /\ InitOver({NoFile}, {LookupMissing}, {1}, {PyNone}, {FALSE})
    /\ values \in SeqsUpTo(VarianceValues, MaxLen)
    /\ variance_out = <<>>
    /\ pc = "_compute_manual_variance"

ComputeVariance ==
    /\ pc = "_compute_manual_variance"
    /\ variance_out' = _compute_manual_variance(values)
    /\ pc' = "returned"
    /\ UNCHANGED <<config, files, cleaner, engine, values>>

NextVariance == ComputeVariance

SpecVariance == InitVariance /\ [][NextVariance]_vars

(***************************************************************************)
(* Properties of the cleaner.                                              *)
(***************************************************************************)
\* the reason codes _validate_record returns, and the two it builds from
\* an exception
ReasonCodes ==
    {"invalid_datetime_format", "dropoff_before_or_equal_pickup",
     "date_out_of_range", "negative_or_null_distance", "distance_exceeds_max",
     "negative_or_null_fare", "fare_exceeds_max", "invalid_passenger_count",
     "passenger_count_exceeds_max", "invalid_pulocation_id",
     "invalid_dolocation_id", "trip_duration_too_short",
     "trip_duration_exceeds_max", "invalid_ratecode", "invalid_payment_type",
     "invalid_store_fwd_flag"}
ProcessingErrors ==
    {ProcessingErrorReason(OverflowError), ProcessingErrorReason(AttributeError)}

\* how often a source index is listed among the cleaned and the excluded
TimesCleaned(i) ==
    Cardinality({k \in DOMAIN cleaned_trips : cleaned_trips[k].trip_id = i})
TimesExcluded(i) ==
    Cardinality({k \in DOMAIN excluded_records : excluded_records[k][1] = i})

\* the outcome is accepted (a record, no reason) or excluded (no record, a
\* reason of the taxonomy)
OneOutcome(result) ==
    IF result.is_valid
    THEN result.cleaned_record # PyNone /\ result.reason = NoReason
    ELSE /\ result.cleaned_record = PyNone
         /\ result.reason \in ReasonCodes \cup ProcessingErrors

\* C1: every processed record has exactly one outcome, accepted or excluded
\* with one reason; each processed source index is listed exactly once, in
\* cleaned_trips or in excluded_records, nothing else is listed, and every
\* reason is a reason code of the validator or a processing_error code.
C1_ExactlyOneOutcome ==
    /\ \A i \in 1..stats.total_processed : TimesCleaned(i) + TimesExcluded(i) = 1
    /\ \A k \in DOMAIN cleaned_trips :
          cleaned_trips[k].trip_id \in 1..stats.total_processed
    /\ \A k \in DOMAIN excluded_records :
          /\ excluded_records[k][1] \in 1..stats.total_processed
          /\ excluded_records[k][2] \in ReasonCodes \cup ProcessingErrors
    /\ \A i \in 1..Len(source.rows) :
          OneOutcome(_validate_record(source.rows[i], i, zone_ids))

\* two rows processed, one accepted and one excluded
C1_Witness ==
    /\ pc = "write_cleaned_data"
    /\ stats.total_processed = 2
    /\ Len(cleaned_trips) = 1
    /\ Len(excluded_records) = 1

\* the number of the rule a reason code belongs to, in the order timestamp
\* parse, ordering, date window, distance, fare, passenger count, pickup
\* zone, dropoff zone, duration, rate code, payment type, flag; 0 for a
\* processing_error code
RuleOf(reason) ==
    CASE reason = "invalid_datetime_format" -> 1
      [] reason = "dropoff_before_or_equal_pickup" -> 2
      [] reason = "date_out_of_range" -> 3
      [] reason \in {"negative_or_null_distance", "distance_exceeds_max"} -> 4
      [] reason \in {"negative_or_null_fare", "fare_exceeds_max"} -> 5
      [] reason \in {"invalid_passenger_count", "passenger_count_exceeds_max"} -> 6
      [] reason = "invalid_pulocation_id" -> 7
      [] reason = "invalid_dolocation_id" -> 8
      [] reason \in {"trip_duration_too_short", "trip_duration_exceeds_max"} -> 9
      [] reason = "invalid_ratecode" -> 10
      [] reason = "invalid_payment_type" -> 11
      [] reason = "invalid_store_fwd_flag" -> 12
      [] OTHER -> 0

\* an integer field fails its rule when it is missing, no number, or outside
\* the allowed set; a text such as inf, which is no integer, is not counted
\* here, so that only undisputed failures are
IntFails(cell, allowed) ==
    LET n == _parse_int(cell)
    IN  ~Raised(n) /\ (IsNone(n) \/ n.v \notin allowed)

\* the rules a raw row fails, each taken on its own
FailedRules(row, zones) ==
    LET pickup_dt == _parse_datetime(row.tpep_pickup_datetime)
        dropoff_dt == _parse_datetime(row.tpep_dropoff_datetime)
        parsed == ~IsNone(pickup_dt) /\ ~IsNone(dropoff_dt)
        trip_distance == _parse_float(row.trip_distance)
        fare_amount == _parse_float(row.fare_amount)
        flag == row.store_and_fwd_flag
    IN  {n \in 1..12 :
            CASE n = 1 -> ~parsed
              [] n = 2 -> parsed /\ dropoff_dt.v <= pickup_dt.v
              [] n = 3 -> ~IsNone(pickup_dt) /\ ~InJanuary2019(pickup_dt)
              [] n = 4 -> \/ IsNone(trip_distance)
                          \/ FLt(trip_distance, Fin(0))
                          \/ FGt(trip_distance, Fin(max_distance_miles * Mil))
              [] n = 5 -> \/ IsNone(fare_amount)
                          \/ FLt(fare_amount, Fin(min_fare * Mil))
                          \/ FGt(fare_amount, Fin(max_fare * Mil))
              [] n = 6 -> IntFails(row.passenger_count,
                                   min_passenger_count..max_passenger_count)
              [] n = 7 -> IntFails(row.PULocationID, zones)
              [] n = 8 -> IntFails(row.DOLocationID, zones)
              [] n = 9 -> /\ parsed
                          /\ \/ TotalSeconds(pickup_dt, dropoff_dt)
                                   < 60 * min_trip_duration_minutes
                             \/ TotalSeconds(pickup_dt, dropoff_dt)
                                   > 60 * max_trip_duration_minutes
              [] n = 10 -> IntFails(row.RatecodeID, VALID_RATE_CODES)
              [] n = 11 -> IntFails(row.payment_type, VALID_PAYMENT_TYPES)
              [] OTHER -> ~StripRaises(flag) /\ Strip(flag) \notin VALID_STORE_FWD_FLAGS}

Earliest(rules) == CHOOSE n \in rules : \A m \in rules : n <= m

\* C2: a record that fails two or more rules is reported with the reason of
\* the earliest rule it fails, in the fixed order of the rules.
C2_RulePrecedence ==
    \A k \in DOMAIN excluded_records :
        LET failed == FailedRules(source.rows[excluded_records[k][1]], zone_ids)
        IN  Cardinality(failed) >= 2
                => RuleOf(excluded_records[k][2]) = Earliest(failed)

\* every rule of the validator, on a cleaned record
SatisfiesAllRules(rec, zones) ==
    /\ rec.dropoff_datetime.v > rec.pickup_datetime.v
    /\ InJanuary2019(rec.pickup_datetime)
    /\ rec.trip_distance.t = "fin"
    /\ 0 <= rec.trip_distance.v /\ rec.trip_distance.v <= max_distance_miles * Mil
    /\ rec.fare_amount.t = "fin"
    /\ min_fare * Mil <= rec.fare_amount.v /\ rec.fare_amount.v <= max_fare * Mil
    /\ rec.passenger_count \in min_passenger_count..max_passenger_count
    /\ rec.pulocation_id \in zones
    /\ rec.dolocation_id \in zones
    /\ rec.trip_duration_minutes.t = "fin"
    /\ min_trip_duration_minutes * Mil <= rec.trip_duration_minutes.v
    /\ rec.trip_duration_minutes.v <= max_trip_duration_minutes * Mil
    /\ rec.ratecode_id \in VALID_RATE_CODES
    /\ rec.payment_type \in VALID_PAYMENT_TYPES
    /\ rec.store_and_fwd_flag \in VALID_STORE_FWD_FLAGS
    /\ rec.hour_of_day \in 0..23

\* C3: every record of cleaned_trips satisfies all validation rules at once.
C3_CleanedSatisfyAllRules ==
    \A k \in DOMAIN cleaned_trips : SatisfiesAllRules(cleaned_trips[k], zone_ids)

\* no negative number (NaN, which is neither, is not counted against it)
NonNegative(x) == ~(x.t = "ninf" \/ (x.t = "fin" /\ x.v < 0))

\* C4: in every record of cleaned_trips the fare, the total and the six
\* secondary charges are non-negative, whatever the raw values were.
C4_MoneyNonNegative ==
    \A k \in DOMAIN cleaned_trips :
        LET rec == cleaned_trips[k]
        IN  /\ NonNegative(rec.fare_amount)
            /\ NonNegative(rec.total_amount)
            /\ NonNegative(rec.extra)
            /\ NonNegative(rec.mta_tax)
            /\ NonNegative(rec.tip_amount)
            /\ NonNegative(rec.tolls_amount)
            /\ NonNegative(rec.improvement_surcharge)
            /\ NonNegative(rec.congestion_surcharge)

(***************************************************************************)
(* Properties of process_csv_chunks.                                       *)
(***************************************************************************)
\* the trips and the exclusions of the first n rows, validated in order
RECURSIVE CleanedOf(_, _)
CleanedOf(rows, n) ==
    IF n = 0 THEN <<>>
    ELSE LET result == _validate_record(rows[n], n, zone_ids)
         IN  IF result.is_valid
             THEN Append(CleanedOf(rows, n - 1), result.cleaned_record)
             ELSE CleanedOf(rows, n - 1)
RECURSIVE ExcludedOf(_, _)
ExcludedOf(rows, n) ==
    IF n = 0 THEN <<>>
    ELSE LET result == _validate_record(rows[n], n, zone_ids)
         IN  IF result.is_valid THEN ExcludedOf(rows, n - 1)
             ELSE Append(ExcludedOf(rows, n - 1), <<n, result.reason>>)
\* reason -> number of exclusions with it
ReasonCounts(excluded) ==
    [reason \in {excluded[k][2] : k \in DOMAIN excluded} |->
        Cardinality({k \in DOMAIN excluded : excluded[k][2] = reason})]

Min(a, b) == IF a < b THEN a ELSE b
AfterLoop == pc \notin {"process_csv_chunks", "loop"}
\* the rows a run reads to the end of its loop: all, or those within a cap
\* that is neither None nor 0
RowsRead ==
    IF Truthy(MAX_ROWS_TO_PROCESS)
    THEN Min(MAX_ROWS_TO_PROCESS.v, Len(source.rows))
    ELSE Len(source.rows)

\* C5: when process_csv_chunks has returned, the trips, the exclusions and
\* the counters are those of validating the rows read one after the other,
\* whatever CHUNK_SIZE is: the result does not depend on the batch size.
C5_BatchSizeIndependence ==
    pc = "write_cleaned_data" /\ source.exists
        => /\ stats.total_processed = RowsRead
           /\ cleaned_trips = CleanedOf(source.rows, RowsRead)
           /\ excluded_records = ExcludedOf(source.rows, RowsRead)
           /\ stats.total_valid = Len(cleaned_trips)
           /\ stats.total_excluded = Len(excluded_records)
           /\ stats.excluded_by_reason = ReasonCounts(excluded_records)

\* three rows in chunks of two: one chunk flushed, one left over
C5_Witness ==
    /\ pc = "write_cleaned_data"
    /\ CHUNK_SIZE = 2
    /\ chunk_count = 2
    /\ stats.total_processed = 3
    /\ cleaned_trips # <<>>
    /\ excluded_records # <<>>

\* the entries of a list whose source index is at most n
TripsUpTo(trips, n) == SelectSeq(trips, LAMBDA trip : trip.trip_id <= n)
RecordsUpTo(records, n) == SelectSeq(records, LAMBDA record : record[1] <= n)

\* C6: with a cap N set, exactly the first min(N, length) rows are
\* processed, and the lists are those of an uncapped run restricted to the
\* source indices up to N.
C6_RowCap ==
    AfterLoop /\ source.exists /\ ~IsNone(MAX_ROWS_TO_PROCESS)
        => LET N == MAX_ROWS_TO_PROCESS.v
               length == Len(source.rows)
           IN  /\ stats.total_processed = Min(N, length)
               /\ cleaned_trips = TripsUpTo(CleanedOf(source.rows, length), N)
               /\ excluded_records = RecordsUpTo(ExcludedOf(source.rows, length), N)

(***************************************************************************)
(* Properties of the risk engine.                                          *)
(***************************************************************************)
RECURSIVE SumTripCount(_)
SumTripCount(metrics) ==
    IF metrics = <<>> THEN 0
    ELSE SumTripCount(Front(metrics)) + Last(metrics).trip_count

TripsAt(zone_id, hour) ==
    {k \in DOMAIN cleaned_trips :
        cleaned_trips[k].pulocation_id = zone_id /\ cleaned_trips[k].hour_of_day = hour}

DensityComputed == pc \in {"compute_revenue_volatility", "compute_risk_scores", "done"}

\* C7: once the exposure density of the trips of this cleaning run is
\* computed, the trip counts add up to total_valid, every key is listed
\* once, and each key's trip_count and exposure_score is the number of
\* cleaned trips with that pickup zone and hour.
C7_AggregationSoundness ==
    DensityComputed /\ cleaned_trips # <<>>
        => /\ SumTripCount(zone_hour_metrics) = stats.total_valid
           /\ \A i \in DOMAIN zone_hour_metrics :
                 LET m == zone_hour_metrics[i]
                 IN  /\ m.trip_count = Cardinality(TripsAt(m.zone_id, m.hour))
                     /\ m.exposure_score = m.trip_count
                     /\ \A j \in DOMAIN zone_hour_metrics :
                           zone_hour_metrics[j].zone_id = m.zone_id
                              /\ zone_hour_metrics[j].hour = m.hour => j = i
           /\ \A k \in DOMAIN cleaned_trips :
                 ZoneHourIndex(zone_hour_metrics, cleaned_trips[k].pulocation_id,
                               cleaned_trips[k].hour_of_day) # 0

\* two keys of one zone, one of them with two trips
C7_Witness ==
    /\ pc = "done"
    /\ Len(zone_hour_metrics) = 2
    /\ zone_hour_metrics[1].zone_id = zone_hour_metrics[2].zone_id
    /\ zone_hour_metrics[1].trip_count = 2

IsFinite(x) == x.t = "fin"
AllFinite(xs) == \A i \in DOMAIN xs : IsFinite(xs[i])

\* the mean of the squares less the square of the mean
PopulationVariance(xs) ==
    LET n == Len(xs)
        mean == DivideBy(XSum(xs), n)
        squares == [i \in 1..n |-> XMul(xs[i], xs[i])]
    IN  XSub(DivideBy(XSum(squares), n), XMul(mean, mean))

\* s is the square root of v
IsSqrtOf(s, v) ==
    IF s.t = "root" THEN Q(s.n, s.d) = v
    ELSE IsFinite(s) /\ s.n >= 0 /\ XMul(s, s) = v

\* C8: _compute_manual_variance returns the population variance (divided by
\* n) and its square root; (0, 0) for an empty list; NaN for a list with a
\* value that is not finite; 0 and 0 for [10, 10, 10], 200/3 for [0, 10, 20].
C8_PopulationVariance ==
    pc = "returned"
        => /\ values = <<>> => variance_out = <<Q(0, 1), Q(0, 1)>>
           /\ values # <<>> /\ AllFinite(values)
                 => /\ variance_out[1] = PopulationVariance(values)
                    /\ IsSqrtOf(variance_out[2], variance_out[1])
           /\ ~AllFinite(values) => variance_out = <<XNaN, XNaN>>
           /\ values = <<Q(10, 1), Q(10, 1), Q(10, 1)>>
                 => variance_out = <<Q(0, 1), Q(0, 1)>>
           /\ values = <<Q(0, 1), Q(10, 1), Q(20, 1)>>
                 => variance_out[1] = Q(200, 3)

\* the variance of [0, 10, 20]
C8_Witness ==
    /\ pc = "returned"
    /\ values = <<Q(0, 1), Q(10, 1), Q(20, 1)>>
    /\ variance_out = <<Q(200, 3), Root(200, 3)>>

Between(x, lo, hi) == IsFinite(x) /\ ~XLt(x, lo) /\ ~XGt(x, hi)

\* C9: every component of every zone-hour lies between 0 and its weight,
\* and the risk score between 0 and 1.
C9_NormalizationBounds ==
    \A i \in DOMAIN zone_risk_scores :
        LET score == zone_risk_scores[i]
        IN  /\ Between(score.density_component, Q(0, 1), RISK_WEIGHTS.density)
            /\ Between(score.late_night_component, Q(0, 1), RISK_WEIGHTS.late_night)
            /\ Between(score.volatility_component, Q(0, 1), RISK_WEIGHTS.volatility)
            /\ Between(score.risk_score, Q(0, 1), Q(1, 1))

\* the standard deviations of the zones, in the order of the zones
StdDevs == [i \in DOMAIN zone_revenue_metrics |-> zone_revenue_metrics[i].revenue_std_dev]
\* the largest of the finite ones
LargestStdDev ==
    LET finite == {StdDevs[i] : i \in {j \in DOMAIN StdDevs : IsFinite(StdDevs[j])}}
    IN  CHOOSE m \in finite : \A x \in finite : ~XGt(x, m)
StdDevOf(zone_id) == StdDevs[ZoneIndex(zone_revenue_metrics, zone_id)]
VolatilityComponent(norm) == XRound4(XMul(RISK_WEIGHTS.volatility, norm))

\* C10 as claimed: the denominator is the largest standard deviation
\* floored at 1 (stated for zones whose standard deviations are all finite).
C10_FlooredAtOne ==
    pc = "done" /\ zone_risk_scores # <<>> /\ AllFinite(StdDevs)
        => \A i \in DOMAIN zone_risk_scores :
              zone_risk_scores[i].volatility_component =
                 VolatilityComponent(
                    XDiv(StdDevOf(zone_risk_scores[i].zone_id),
                         IF XGt(LargestStdDev, Q(1, 1)) THEN LargestStdDev ELSE Q(1, 1)))

\* C10 amended: the denominator is the largest standard deviation itself,
\* and 1 only when that is 0; a NaN deviation of the first zone makes every
\* volatility_norm 0, a NaN deviation of a later zone is passed over.
C10_LargestOrOneWhenZero ==
    pc = "done" /\ zone_risk_scores # <<>>
        => \A i \in DOMAIN zone_risk_scores :
              zone_risk_scores[i].volatility_component =
                 VolatilityComponent(
                    IF ~IsFinite(StdDevs[1]) THEN Q(0, 1)
                    ELSE XDiv(StdDevOf(zone_risk_scores[i].zone_id),
                              IF LargestStdDev = Q(0, 1) THEN Q(1, 1)
                              ELSE LargestStdDev))

\* one zone whose standard deviation, 0.25, is the largest: its normalized
\* volatility is 1
C10_Witness ==
    /\ pc = "done"
    /\ Len(zone_revenue_metrics) = 1
    /\ zone_revenue_metrics[1].revenue_std_dev = Q(1, 4)
    /\ zone_risk_scores[1].volatility_component = RISK_WEIGHTS.volatility


(***************************************************************************)
(* Properties of the run as a whole.                                       *)
(***************************************************************************)
\* the files as they were before the run: absent, or left by an earlier run
FilesBeforeRun ==
    /\ cleaned_file \in {NoFile, EarlierCleanedFile}
    /\ exclusion_log \in {NoFile, EarlierExclusionLog}

\* C11: when the raw trip file does not exist, the run writes nothing:
\* neither the cleaned file nor the exclusion log is created or overwritten.
C11_NoOutputWithoutInput ==
    ~source.exists => FilesBeforeRun


\* a fault of the validation of one record: int() of an infinite number,
\* strip() of a missing flag
IsFault(reason) == reason \in ProcessingErrors
FaultsBefore(n) ==
    {k \in DOMAIN excluded_records :
        excluded_records[k][1] < n /\ IsFault(excluded_records[k][2])}

\* C12: a fault while validating one record becomes an exclusion with a
\* processing_error reason and the loop goes on: no validation raises, and
\* when the input has been read total_processed is the number of rows of
\* the source, or the cap, whatever the rows held; every one of them has
\* its outcome.
C12_FaultContainment ==
    /\ \A i \in 1..Len(source.rows) :
          LET result == _validate_record(source.rows[i], i, zone_ids)
          IN  result.is_valid \/ result.reason \in ReasonCodes \cup ProcessingErrors
    /\ pc = "write_cleaned_data" /\ source.exists
          => /\ stats.total_processed = RowsRead
             /\ stats.total_processed \in
                   {Len(source.rows)} \cup
                   (IF IsNone(MAX_ROWS_TO_PROCESS) THEN {} ELSE {MAX_ROWS_TO_PROCESS.v})
             /\ \A i \in 1..RowsRead : TimesCleaned(i) + TimesExcluded(i) = 1

\* a fault at the first record, the second record processed after it
C12_Witness ==
    /\ pc = "write_cleaned_data"
    /\ Len(source.rows) = 2
    /\ stats.total_processed = 2
    /\ FaultsBefore(2) # {}
    /\ TimesCleaned(2) = 1


\* the flag of a raw row is not Y or N after trimming; a missing flag is none
FlagNotListed(flag) ==
    flag.t = "none" \/ Strip(flag) \notin VALID_STORE_FWD_FLAGS

\* the row fails none of the rules before the flag, and each of its integer
\* fields is an integer
PassesRulesBeforeFlag(row, zones) ==
    /\ FailedRules(row, zones) \cap (1..11) = {}
    /\ \A cell \in {row.passenger_count, row.PULocationID, row.DOLocationID,
                    row.RatecodeID, row.payment_type} : ~Raised(_parse_int(cell))

\* C13: a processed record that passes every rule before the flag and whose
\* flag is not Y or N after trimming, an empty or missing flag included, is
\* listed as excluded with invalid_store_fwd_flag.
C13_FlagReason ==
    \A i \in 1..stats.total_processed :
        (/\ PassesRulesBeforeFlag(source.rows[i], zone_ids)
         /\ FlagNotListed(source.rows[i].store_and_fwd_flag))
            => \E k \in DOMAIN excluded_records :
                  excluded_records[k] = <<i, "invalid_store_fwd_flag">>


\* one field of a valid row set to a value exactly at a configured bound:
\* distance 50, fare 0 and 500, 1 and 8 passengers, 1 and 1440 minutes
AtBound ==
    {<<"trip_distance", Num(max_distance_miles * Mil)>>,
     <<"fare_amount", Num(min_fare * Mil)>>,
     <<"fare_amount", Num(max_fare * Mil)>>,
     <<"passenger_count", Num(min_passenger_count * Mil)>>,
     <<"passenger_count", Num(max_passenger_count * Mil)>>,
     <<"tpep_dropoff_datetime", Ts(8 * 3600 + 60 * min_trip_duration_minutes)>>,
     <<"tpep_dropoff_datetime", Ts(8 * 3600 + 60 * max_trip_duration_minutes)>>}

\* one field set just outside its bound, with the reason that belongs to it:
\* distance 50.01, fare -0.01 and 500.01, 0 and 9 passengers, 59 seconds and
\* 1440 minutes and a second, a dropoff at the pickup time
JustOutside ==
    {<<"trip_distance", Num(max_distance_miles * Mil + 10), "distance_exceeds_max">>,
     <<"fare_amount", Num(min_fare * Mil - 10), "negative_or_null_fare">>,
     <<"fare_amount", Num(max_fare * Mil + 10), "fare_exceeds_max">>,
     <<"passenger_count", Num((min_passenger_count - 1) * Mil), "invalid_passenger_count">>,
     <<"passenger_count", Num((max_passenger_count + 1) * Mil),
       "passenger_count_exceeds_max">>,
     <<"tpep_dropoff_datetime", Ts(8 * 3600 + 60 * min_trip_duration_minutes - 1),
       "trip_duration_too_short">>,
     <<"tpep_dropoff_datetime", Ts(8 * 3600 + 60 * max_trip_duration_minutes + 1),
       "trip_duration_exceeds_max">>,
     <<"tpep_dropoff_datetime", BaseRow.tpep_pickup_datetime,
       "dropoff_before_or_equal_pickup">>}

\* C14: the bounds are inclusive: a processed record that is valid but for
\* one value exactly at a bound is accepted, one with the value just outside
\* is excluded with the reason of that bound, and a dropoff equal to the
\* pickup is excluded with dropoff_before_or_equal_pickup.
C14_InclusiveBounds ==
    \A i \in 1..stats.total_processed :
        /\ \A p \in AtBound :
              source.rows[i] = Perturb(BaseRow, p) => TimesCleaned(i) = 1
        /\ \A p \in JustOutside :
              source.rows[i] = Perturb(BaseRow, <<p[1], p[2]>>)
                  => \E k \in DOMAIN excluded_records :
                        excluded_records[k] = <<i, p[3]>>

\* a distance of exactly 50 accepted and, in the same run, one of 50.01
\* excluded
C14_Witness ==
    /\ pc = "write_cleaned_data"
    /\ Len(source.rows) = 2
    /\ source.rows[1] = Perturb(BaseRow, <<"trip_distance", Num(max_distance_miles * Mil)>>)
    /\ source.rows[2] =
          Perturb(BaseRow, <<"trip_distance", Num(max_distance_miles * Mil + 10)>>)
    /\ TimesCleaned(1) = 1
    /\ excluded_records = <<<<2, "distance_exceeds_max">>>>


\* a sequence of numbers is strictly increasing
StrictlyIncreasing(s) == \A j, k \in DOMAIN s : j < k => s[j] < s[k]
LogWritten ==
    pc \notin {"process_csv_chunks", "loop", "write_cleaned_data", "write_exclusion_log"}

\* C15: after any number of processed records the source indices of
\* excluded_records and the trip_ids of cleaned_trips are strictly
\* increasing, and the exclusion log, once written, has one row for each
\* exclusion record, in the same order.
C15_SourceOrder ==
    /\ StrictlyIncreasing([k \in DOMAIN excluded_records |-> excluded_records[k][1]])
    /\ StrictlyIncreasing([k \in DOMAIN cleaned_trips |-> cleaned_trips[k].trip_id])
    /\ LogWritten
          => /\ exclusion_log.exists
             /\ Len(exclusion_log.rows) = Len(excluded_records)
             /\ \A k \in DOMAIN excluded_records :
                   /\ exclusion_log.rows[k].index = excluded_records[k][1]
                   /\ exclusion_log.rows[k].reason = excluded_records[k][2]
             /\ StrictlyIncreasing([k \in DOMAIN exclusion_log.rows |->
                                       exclusion_log.rows[k].index])

\* two exclusions with an accepted record between them, the log written
C15_Witness ==
    /\ pc = "RiskEngine.run"
    /\ Len(cleaned_trips) = 1
    /\ Len(excluded_records) = 2
    /\ excluded_records[1][1] = 1
    /\ excluded_records[2][1] = 3
    /\ Len(exclusion_log.rows) = 2


\* the lookup can be used as it is: it was read and lists at least 263
\* distinct ids
LookupComplete(lookup) ==
    /\ lookup.exists
    /\ ~lookup.unreadable
    /\ Cardinality(lookup.ids) >= NYC_ZONE_COUNT

\* C16: the zone ids are 1..263 when the lookup is missing, unreadable or
\* lists fewer than 263 distinct ids, and exactly the ids of the lookup
\* otherwise; no step of the ingestion changes them.
C16_ZoneFallback ==
    zone_ids = IF LookupComplete(zone_lookup) THEN zone_lookup.ids
               ELSE 1..NYC_ZONE_COUNT

\* a record of pickup zone 10 accepted under a lookup that lists zones 1..5
C16_Witness ==
    /\ zone_lookup = LookupShort
    /\ pc = "write_cleaned_data"
    /\ Len(cleaned_trips) = 1
    /\ cleaned_trips[1].pulocation_id = 10
    /\ zone_ids = 1..NYC_ZONE_COUNT


\* the revenue values of the zone of the i-th revenue metric
FaresOfMetric(i) == ZoneFares(engine_trips)[i].fares
AllEqual(xs) == \A j, k \in DOMAIN xs : xs[j] = xs[k]

\* C17: the stability score of every zone lies between 0 and 1, and it is 1
\* when all the revenue values of the zone are equal.
C17_StabilityScore ==
    \A i \in DOMAIN zone_revenue_metrics :
        LET stability == zone_revenue_metrics[i].stability_score
        IN  /\ Between(stability, Q(0, 1), Q(1, 1))
            /\ AllEqual(FaresOfMetric(i)) => stability = Q(1, 1)


\* the hour is one of 22, 23, 0, 1, 2, 3, 4, 5
LateNight(hour) == hour >= 22 \/ hour <= 5

\* C18: the late-night component of a zone-hour is the late-night weight
\* when the hour is one of 22, 23, 0..5 and 0 for every other hour.
C18_LateNightComponent ==
    \A i \in DOMAIN zone_risk_scores :
        zone_risk_scores[i].late_night_component =
            IF LateNight(zone_risk_scores[i].hour) THEN RISK_WEIGHTS.late_night
            ELSE Q(0, 1)

\* zone 10 scored at hour 23 with the late-night weight and at hour 8
\* without it
C18_Witness ==
    /\ pc = "done"
    /\ \E i, j \in DOMAIN zone_risk_scores :
          /\ zone_risk_scores[i].zone_id = 10
          /\ zone_risk_scores[i].hour = 23
          /\ zone_risk_scores[i].late_night_component = RISK_WEIGHTS.late_night
          /\ zone_risk_scores[j].zone_id = 10
          /\ zone_risk_scores[j].hour = 8
          /\ zone_risk_scores[j].late_night_component = Q(0, 1)


\* the sum of the counts of a mapping from reason to count
RECURSIVE SumCounts(_)
SumCounts(by_reason) ==
    IF DOMAIN by_reason = {} THEN 0
    ELSE LET reason == CHOOSE r \in DOMAIN by_reason : TRUE
         IN  by_reason[reason]
                + SumCounts([r \in DOMAIN by_reason \ {reason} |-> by_reason[r]])
RecordsWith(reason) == {k \in DOMAIN excluded_records : excluded_records[k][2] = reason}

\* C19: after each processed record the counters agree with the lists:
\* total_processed = total_valid + total_excluded, total_valid and
\* total_excluded are the lengths of cleaned_trips and excluded_records, the
\* counts of excluded_by_reason add up to total_excluded, and the count of
\* each reason is the number of exclusion records with that reason.
C19_CounterConsistency ==
    /\ stats.total_processed = stats.total_valid + stats.total_excluded
    /\ stats.total_valid = Len(cleaned_trips)
    /\ stats.total_excluded = Len(excluded_records)
    /\ SumCounts(stats.excluded_by_reason) = stats.total_excluded
    /\ \A reason \in DOMAIN stats.excluded_by_reason :
          stats.excluded_by_reason[reason] = Cardinality(RecordsWith(reason))
    /\ \A k \in DOMAIN excluded_records :
          excluded_records[k][2] \in DOMAIN stats.excluded_by_reason

\* two records excluded with the same reason, counted under one key
C19_Witness ==
    /\ pc = "loop"
    /\ stats.total_processed = 2
    /\ Len(excluded_records) = 2
    /\ excluded_records[1][2] = excluded_records[2][2]
    /\ stats.excluded_by_reason[excluded_records[1][2]] = 2


\* C20: once a cleaning run has completed, the cleaned file holds exactly
\* the trips that run accepted, one row each in source order, and nothing of
\* an earlier run (no row at all when the run accepted none); the engine
\* that follows loads these trips and no others.
C20_LatestRunOnly ==
    /\ LogWritten => cleaned_file.rows = FormatAll(cleaned_trips)
    /\ pc \in {"compute_exposure_density", "compute_revenue_volatility",
               "compute_risk_scores", "done"}
          => engine_trips = FormatAll(cleaned_trips)

====
